---- MODULE Spec2Model ----
(***************************************************************************)
(* LandText (src/landtext.py): the editor windows, their documents, the    *)
(* window registry all_editors, the theme table THEMES and the settings    *)
(* file, as a state machine with one action per event handler.             *)
(*                                                                         *)
(* The specifications share the variables and the actions:                 *)
(*   Spec      the document handlers (keys, paste, undo/redo, New, Open,   *)
(*             Save, Save As, the unsaved-changes dialog) and closing,     *)
(*             over the windows of DocIds;                                 *)
(*   SpecWin   window creation and closing over the windows of Ids, with   *)
(*             the Theme dialog and its broadcast;                         *)
(*   SpecFind  the Find dialog and the loop of do_find on the root window, *)
(*             over every buffer of FindTexts (SpecFindFair: with the      *)
(*             loop of do_find running to its end);                        *)
(*   SpecSet   starting the program on the settings files of               *)
(*             SettingsFiles, the Theme and the Font Size dialog, closing  *)
(*             and starting again;                                         *)
(*   SpecLook  two windows with the Theme and the Font Size dialog;        *)
(*   SpecTwo   two windows with their documents, files and Find.           *)
(***************************************************************************)
EXTENDS Integers, Sequences, FiniteSets, TLC

\* ---------------------------------------------------------------- bounds
MaxWindows == 4          \* window handles of SpecWin: 1..MaxWindows
MaxLen == 2              \* longest buffer content (characters)
MaxUndo == 2             \* deepest undo stack (Tk: maxundo=-1, unlimited)
MaxFindLen == 4          \* longest buffer content of SpecFind
MaxFindDialogs == 1      \* Find dialogs open at a time in one window

root == 1                \* main(): Editor(root, is_root=True)
Ids == 1..MaxWindows
DocIds == {root}         \* the windows of Spec
NoWindow == 0            \* Python None for a window / dialog reference

NL == "\n"
CR == "\r"
KeyChars == {"a", NL}   \* what a printing key or Return inserts
None == "None"           \* current_file["path"] = None
Paths == {"p.txt"}
Cancelled == ""          \* a file chooser that was cancelled returns ""

\* ------------------------------------------------------------ theme table
ThemeKeys ==
  {"bg", "fg", "insertbackground", "selectbackground", "selectforeground",
   "status_bg", "status_fg"}

LightTheme ==
  [bg |-> "white", fg |-> "black", insertbackground |-> "black",
   selectbackground |-> "lightblue", selectforeground |-> "black",
   status_bg |-> "lightgray", status_fg |-> "black"]

DarkTheme ==
  [bg |-> "#1e1e1e", fg |-> "#d4d4d4", insertbackground |-> "white",
   selectbackground |-> "#264f78", selectforeground |-> "white",
   status_bg |-> "#2d2d2d", status_fg |-> "white"]

DefaultThemes ==
  [Light |-> LightTheme, Dark |-> DarkTheme, Custom |-> LightTheme]

ThemeNames == {"Light", "Dark", "Custom"}

DefaultFontSize == 12

\* what a window that was never configured displays
Unconfigured == [k \in ThemeKeys |-> ""]
NoFont == 0              \* the font size of a window that does not exist

NoReport == ""           \* the handler showed no message box

\* ---------------------------------------------------------- settings file
\* the JSON documents landtext_settings.json can hold
JStr(x) == [type |-> "string", s |-> x]
JNum(x) == [type |-> "number", n |-> x]
JObj(x) == [type |-> "object", o |-> x]
Unparseable == [type |-> "garbage"]       \* json.load raises on it

AbsentFile == [exists |-> FALSE, readable |-> FALSE, data |-> Unparseable]

VARIABLES
  all_editors,      \* the window registry: a list of window handles
  wstate,           \* per window: "none", "shown", "withdrawn", "destroyed"
  parent,           \* per window: the window its Toplevel was created in
  quit,             \* quit() was called on the root: mainloop returns
  text,             \* per window: the buffer, without Tk's final newline
  undo,             \* per window: the text widget's undo stack
  redo,             \* per window: the text widget's redo stack
  current_file,     \* per window: [path, modified]
  files,            \* the file system: path -> [exists, content]
  unsaved_dialog,   \* the window whose "Unsaved Changes" dialog is open
  changed,          \* history: content changed since the last successful
                    \*   New / Open / Save / Save As of the window
  saved_from,       \* history: per path, the buffer last saved to it
  current_theme,    \* global current_theme
  THEMES,           \* global THEMES (THEMES["Custom"] is mutable)
  current_font_size, \* global current_font_size
  colours,          \* per window: the colours its widgets were configured to
  theme_dialog_ref, \* global theme_dialog_ref as line 492 tests it: the
                    \*   window owning the dialog it refers to, NoWindow
                    \*   when it is None or its dialog was destroyed
  theme_dialogs,    \* per window: how many Theme dialogs it owns
  theme_var,        \* the Theme dialog's radio-button variable
  settings_file,    \* landtext_settings.json: [exists, readable, data]
  saved_settings,   \* history: the settings the last save_settings call
                    \*   was to write
  loaded,           \* history: the last load_settings call read a file
                    \*   that save_settings had written
  fonts,            \* per window: the font size of its text widget
  font_dialog_ref,  \* global font_dialog_ref as line 411 tests it
  font_dialogs,     \* per window: how many Font Size dialogs it owns
  size_var,         \* the Font Size dialog's slider variable
  found,            \* per window: the offsets carrying the tag "found"
  find_dialogs,     \* per window: how many Find dialogs it has open
  find_pc,          \* do_find: "idle", or "loop" inside "while True"
  find_win,         \* do_find: the window whose dialog runs it
  find_term,        \* do_find: search_term
  find_idx,         \* do_find: idx, as a character offset
  report,           \* the message box the last handler showed, if any
  crashed           \* main() ended with an uncaught exception

winVars == <<all_editors, wstate, parent, quit>>
docVars == <<text, undo, redo, found, current_file, changed>>
fsVars == <<files, saved_from>>
themeVars == <<current_theme, THEMES, current_font_size, theme_dialog_ref,
               theme_dialogs, theme_var, settings_file, saved_settings, loaded>>
fontVars == <<font_dialog_ref, font_dialogs, size_var>>
findVars == <<find_dialogs, find_pc, find_win, find_term, find_idx>>
\* everything outside the window tree, the documents and the file system
appVars == <<themeVars, fontVars, findVars, colours, fonts, crashed>>
vars == <<all_editors, wstate, parent, quit, text, undo, redo, current_file,
          files, unsaved_dialog, changed, saved_from, current_theme, THEMES,
          current_font_size, colours, theme_dialog_ref, theme_dialogs, theme_var,
          settings_file, saved_settings, loaded, fonts, font_dialog_ref,
          font_dialogs, size_var, found, find_dialogs, find_pc, find_win,
          find_term, find_idx, report, crashed>>

\* ---------------------------------------------------------------- helpers
Range(s) == {s[i] : i \in 1..Len(s)}

InRegistry(w) == w \in Range(all_editors)

\* list.remove(x): drops the first occurrence of x
ListRemove(s, x) ==
  LET i == CHOOSE j \in 1..Len(s) : s[j] = x /\ \A k \in 1..(j-1) : s[k] # x
  IN  SubSeq(s, 1, i-1) \o SubSeq(s, i+1, Len(s))

\* the Toplevel windows created (transitively) inside window w
RECURSIVE Descendants(_, _)
Descendants(w, n) ==
  IF n = 0 THEN {}
  ELSE LET kids == {c \in Ids : parent[c] = w}
       IN  kids \cup UNION {Descendants(c, n-1) : c \in kids}

\* the lowest handle that was never used
FreshId(S) == CHOOSE n \in S : wstate[n] = "none" /\ \A m \in S : m < n => wstate[m] # "none"

NewDocument == [path |-> None, modified |-> FALSE]
NoFile == [exists |-> FALSE, content |-> <<>>]

\* an editor window whose menus and keys can be used: it is on screen, the
\* application runs and no dialog holds the grab (dialog.grab_set())
Usable(w) ==
  /\ wstate[w] = "shown"
  /\ ~quit
  /\ ~crashed
  /\ unsaved_dialog = NoWindow
  /\ find_pc = "idle"                      \* no handler is running

\* Editor.mark_modified
mark_modified(cf) == IF ~cf.modified THEN [cf EXCEPT !.modified = TRUE] ELSE cf

\* ------------------------------------------------------------------- Init
\* the files the user's directory may hold at startup
InitialFiles == {NoFile, [exists |-> TRUE, content |-> <<"a">>]}

\* the state when main() has entered root.mainloop() and the user pasted
\* the text t into the new document: no settings file, so load_settings()
\* returned "Light"; one root editor
StartedWith(t) ==
  /\ all_editors = <<root>>
  /\ wstate = [w \in Ids |-> IF w = root THEN "shown" ELSE "none"]
  /\ parent = [w \in Ids |-> NoWindow]
  /\ quit = FALSE
  /\ text = [w \in Ids |-> IF w = root THEN t ELSE <<>>]
  /\ undo = [w \in Ids |-> IF w = root /\ t # <<>> THEN << <<>> >> ELSE <<>>]
  /\ redo = [w \in Ids |-> <<>>]
  /\ current_file = [w \in Ids |-> IF w = root /\ t # <<>>
                                     THEN mark_modified(NewDocument) ELSE NewDocument]
  /\ unsaved_dialog = NoWindow
  /\ changed = [w \in Ids |-> w = root /\ t # <<>>]
  /\ saved_from = [p \in Paths |-> NoFile]
  /\ current_theme = "Light"
  /\ THEMES = DefaultThemes
  /\ current_font_size = DefaultFontSize
  /\ colours = [w \in Ids |-> IF w = root THEN DefaultThemes["Light"] ELSE Unconfigured]
  /\ theme_dialog_ref = NoWindow
  /\ theme_dialogs = [w \in Ids |-> 0]
  /\ theme_var = "Light"
  /\ settings_file = AbsentFile
  /\ saved_settings = <<>>
  /\ loaded = FALSE
  /\ fonts = [w \in Ids |-> IF w = root THEN DefaultFontSize ELSE NoFont]
  /\ font_dialog_ref = NoWindow
  /\ font_dialogs = [w \in Ids |-> 0]
  /\ size_var = DefaultFontSize
  /\ found = [w \in Ids |-> {}]
  /\ find_dialogs = [w \in Ids |-> 0]
  /\ find_pc = "idle"
  /\ find_win = NoWindow
  /\ find_term = <<>>
  /\ find_idx = 0
  /\ report = NoReport
  /\ crashed = FALSE

\* the state when main() has entered root.mainloop()
Init ==
  /\ StartedWith(<<>>)
  /\ files \in [Paths -> InitialFiles]

\* ------------------------------------------------------ window life cycle
\* the options of text_area.config (lines 235-241) and of
\* status_bar.config (lines 242-245)
TextKeys ==
  {"bg", "fg", "insertbackground", "selectbackground", "selectforeground"}
StatusKeys == {"status_bg", "status_fg"}

\* Editor.apply_theme(theme_name) raises KeyError: THEMES has no such theme
\* (line 234), or the theme lacks a colour one of the config calls reads
lookup_raises(themes, theme_name) ==
  \/ theme_name \notin DOMAIN themes
  \/ ~(ThemeKeys \subseteq DOMAIN themes[theme_name])

apply_theme_raises(theme_name) == lookup_raises(THEMES, theme_name)

\* Editor.apply_theme(theme_name) on a window displaying the colours shown:
\* the colours its widgets display afterwards. A config call whose
\* arguments cannot be evaluated configures nothing, and the exception
\* skips what follows it.
configured(themes, shown, theme_name) ==
  IF theme_name \notin DOMAIN themes THEN shown
  ELSE LET theme == themes[theme_name]
           text_ok == TextKeys \subseteq DOMAIN theme
           status_ok == text_ok /\ StatusKeys \subseteq DOMAIN theme
       IN  [k \in ThemeKeys |->
              IF (k \in TextKeys /\ text_ok) \/ (k \in StatusKeys /\ status_ok)
              THEN theme[k] ELSE shown[k]]

apply_theme(shown, theme_name) == configured(THEMES, shown, theme_name)

\* Editor.__init__ via "Open New Window" of window w: Editor(self.window)
OpenNewWindow(w, S) ==
  /\ Usable(w)
  /\ \E n \in S : wstate[n] = "none"
  /\ LET n == FreshId(S) IN
       /\ wstate' = [wstate EXCEPT ![n] = "shown"]
       /\ parent' = [parent EXCEPT ![n] = w]
       /\ all_editors' = Append(all_editors, n)
       /\ current_file' = [current_file EXCEPT ![n] = NewDocument]
       /\ colours' = [colours EXCEPT ![n] = apply_theme(Unconfigured, current_theme)]
       \* the font of _create_widgets (line 151), set again by line 129
       /\ fonts' = [fonts EXCEPT ![n] = current_font_size]
  /\ report' = NoReport
  /\ UNCHANGED <<quit, text, undo, redo, found, changed, files, saved_from,
                 unsaved_dialog, themeVars, fontVars, findVars, crashed>>

\* a slip in the emptiness test: quitting while one editor is still
\* registered
ShouldQuitEarly(eds) == Len(eds) <= 1

\* on_close: "if not all_editors:" (lines 590 and 594)
ShouldQuit(eds) == eds = <<>>

\* a slip in the root branch: destroying the root like any other window
RootCloseDestroys == "destroyed"

\* on_close, root branch: self.window.withdraw() (line 589)
RootCloseState == "withdrawn"

\* Editor.on_close of window w (WM_DELETE_WINDOW). Destroying a Toplevel
\* destroys everything created inside it: its dialogs and the editor
\* windows opened from its menu, which leave the widget tree and display
\* nothing any more. The root is only withdrawn; a dialog of the withdrawn
\* root stays alive.
on_close(w) ==
  /\ wstate[w] = "shown"
  /\ ~quit
  /\ ~crashed
  /\ find_pc = "idle"
  /\ InRegistry(w)
  /\ all_editors' = ListRemove(all_editors, w)
  /\ IF w = root
     THEN /\ wstate' = [wstate EXCEPT ![w] = RootCloseState]
          /\ UNCHANGED <<parent, colours, fonts, unsaved_dialog, theme_dialog_ref,
                         theme_dialogs, font_dialog_ref, font_dialogs,
                         find_dialogs>>
     ELSE LET gone == {w} \cup Descendants(w, MaxWindows) IN
          /\ wstate' = [x \in Ids |-> IF x \in gone THEN "destroyed" ELSE wstate[x]]
          /\ parent' = [x \in Ids |-> IF x \in gone THEN NoWindow ELSE parent[x]]
          /\ colours' = [x \in Ids |-> IF x \in gone THEN Unconfigured ELSE colours[x]]
          /\ unsaved_dialog' = IF unsaved_dialog \in gone THEN NoWindow ELSE unsaved_dialog
          /\ theme_dialog_ref' = IF theme_dialog_ref \in gone THEN NoWindow
                                 ELSE theme_dialog_ref
          /\ theme_dialogs' = [x \in Ids |-> IF x \in gone THEN 0
                                              ELSE theme_dialogs[x]]
          /\ fonts' = [x \in Ids |-> IF x \in gone THEN NoFont ELSE fonts[x]]
          /\ font_dialog_ref' = IF font_dialog_ref \in gone THEN NoWindow
                                ELSE font_dialog_ref
          /\ font_dialogs' = [x \in Ids |-> IF x \in gone THEN 0
                                             ELSE font_dialogs[x]]
          /\ find_dialogs' = [x \in Ids |-> IF x \in gone THEN 0 ELSE find_dialogs[x]]
  /\ quit' = ShouldQuit(all_editors')
  /\ report' = NoReport
  /\ UNCHANGED <<docVars, fsVars, current_theme, THEMES, current_font_size,
                 theme_var, settings_file, saved_settings, loaded, size_var, find_pc,
                 find_win, find_term, find_idx, crashed>>

\* ------------------------------------------------------- the text widget
\* tk.Text(undo=True, maxundo=-1): content, undo stack, redo stack and the
\* characters tagged "found" of window w. Every insert and delete, typed or
\* made by the program, is recorded; the stacks hold the contents an undo /
\* redo returns to. A character is named by its offset from "1.0".
Widget(w) ==
  [text |-> text[w], undo |-> undo[w], redo |-> redo[w], found |-> found[w]]

\* the tagged offsets after n characters were inserted before offset pos:
\* what follows moves up, and the new characters carry the tag when the
\* characters on both sides of them do
TagsAfterInsert(tags, pos, n) ==
  {t \in tags : t < pos} \cup {t + n : t \in {u \in tags : u >= pos}}
    \cup (IF pos - 1 \in tags /\ pos \in tags THEN pos..(pos + n - 1) ELSE {})

\* the tagged offsets after the characters of a..(b-1) were deleted
TagsAfterDelete(tags, a, b) ==
  {t \in tags : t < a} \cup {t - (b - a) : t \in {u \in tags : u >= b}}

TkEdit(ws, new, tags) ==
  IF new = ws.text THEN ws
  ELSE [text |-> new, undo |-> Append(ws.undo, ws.text), redo |-> <<>>,
        found |-> tags]

\* text_area.delete("1.0", tk.END): the final newline of a Tk text stays
TextDeleteAll(ws) == TkEdit(ws, <<>>, {})

\* text_area.insert(index, s), index given as a character offset
TextInsert(ws, pos, s) ==
  TkEdit(ws, SubSeq(ws.text, 1, pos) \o s \o SubSeq(ws.text, pos+1, Len(ws.text)),
         TagsAfterInsert(ws.found, pos, Len(s)))

\* the class binding of BackSpace / Delete: drops the character at pos
TextDeleteChar(ws, pos) ==
  TkEdit(ws, SubSeq(ws.text, 1, pos-1) \o SubSeq(ws.text, pos+1, Len(ws.text)),
         TagsAfterDelete(ws.found, pos - 1, pos))

\* text_area.get("1.0", tk.END): the content and Tk's final newline
TextGetAll(ws) == ws.text \o <<NL>>

\* the length of the longest common prefix of a and b
RECURSIVE CommonPrefix(_, _)
CommonPrefix(a, b) ==
  IF a = <<>> \/ b = <<>> \/ a[1] # b[1] THEN 0
  ELSE 1 + CommonPrefix(SubSeq(a, 2, Len(a)), SubSeq(b, 2, Len(b)))

\* the length of the longest common suffix of a and b
RECURSIVE CommonSuffix(_, _)
CommonSuffix(a, b) ==
  IF a = <<>> \/ b = <<>> \/ a[Len(a)] # b[Len(b)] THEN 0
  ELSE 1 + CommonSuffix(SubSeq(a, 1, Len(a)-1), SubSeq(b, 1, Len(b)-1))

\* undo and redo replay the recorded deletes and inserts; with the stacks
\* holding contents, the replayed edit is taken to be the replacement of
\* what lies between the common prefix and the common suffix
TagsAfterReplay(tags, old, new) ==
  LET p == CommonPrefix(old, new)
      q == CommonSuffix(SubSeq(old, p+1, Len(old)), SubSeq(new, p+1, Len(new)))
  IN  TagsAfterInsert(TagsAfterDelete(tags, p, Len(old) - q), p, Len(new) - p - q)

\* text_area.edit_undo(): TclError "nothing to undo" on an empty stack,
\* which the Tk callback wrapper reports and drops
edit_undo(ws) ==
  IF ws.undo = <<>> THEN ws
  ELSE [text |-> ws.undo[Len(ws.undo)],
        undo |-> SubSeq(ws.undo, 1, Len(ws.undo)-1),
        redo |-> Append(ws.redo, ws.text),
        found |-> TagsAfterReplay(ws.found, ws.text, ws.undo[Len(ws.undo)])]

\* text_area.edit_redo()
edit_redo(ws) ==
  IF ws.redo = <<>> THEN ws
  ELSE [text |-> ws.redo[Len(ws.redo)],
        undo |-> Append(ws.undo, ws.text),
        redo |-> SubSeq(ws.redo, 1, Len(ws.redo)-1),
        found |-> TagsAfterReplay(ws.found, ws.text, ws.redo[Len(ws.redo)])]

\* the bounds of the model on one widget
Within(ws) == Len(ws.text) <= MaxLen /\ Len(ws.undo) <= MaxUndo

\* a slip in the ownership of the buffer: one text widget behind all
\* windows
SetWidgetShared(w, ws) ==
  /\ text' = [x \in Ids |-> ws.text]
  /\ undo' = [undo EXCEPT ![w] = ws.undo]
  /\ redo' = [redo EXCEPT ![w] = ws.redo]
  /\ found' = [found EXCEPT ![w] = ws.found]

SetWidget(w, ws) ==
  /\ text' = [text EXCEPT ![w] = ws.text]
  /\ undo' = [undo EXCEPT ![w] = ws.undo]
  /\ redo' = [redo EXCEPT ![w] = ws.redo]
  /\ found' = [found EXCEPT ![w] = ws.found]

\* an input event of window w that leaves the widget as ws: the history
\* variable records whether the content changed
InputEvent(w, ws, marks) ==
  /\ Usable(w)
  /\ Within(ws)
  /\ SetWidget(w, ws)
  /\ current_file' = [current_file EXCEPT
                        ![w] = IF marks THEN mark_modified(@) ELSE @]
  /\ changed' = [changed EXCEPT ![w] = @ \/ ws.text # text[w]]
  /\ report' = NoReport
  /\ UNCHANGED <<winVars, fsVars, unsaved_dialog, appVars>>

\* <Key> (line 200) with a printing key: mark_modified, then the class
\* binding inserts the character at the insertion cursor
KeyChar(w, c, pos) == InputEvent(w, TextInsert(Widget(w), pos, <<c>>), TRUE)

\* <Key> with BackSpace or Delete next to a character
KeyDelete(w, pos) == InputEvent(w, TextDeleteChar(Widget(w), pos), TRUE)

\* <Key> with a key that edits nothing: an arrow, Shift, Control, F1,
\* BackSpace at the start of the buffer
KeyOther(w) == InputEvent(w, Widget(w), TRUE)

\* <<Paste>> (line 201): mark_modified, then the class binding inserts the
\* clipboard text (nothing when the clipboard is empty)
Paste(w, clip, pos) == InputEvent(w, TextInsert(Widget(w), pos, clip), TRUE)

\* Action > Undo (line 176) runs edit_undo once. <Control-z> (line 195)
\* runs it in the widget binding, which does not return "break", so where
\* the toolkit binds <<Undo>> to Control-z the class binding runs it again.
\* Neither calls mark_modified: <Control-z> is more specific than <Key>.
UndoMenu(w) == InputEvent(w, edit_undo(Widget(w)), FALSE)

UndoKey(w, twice) ==
  InputEvent(w, IF twice THEN edit_undo(edit_undo(Widget(w)))
                ELSE edit_undo(Widget(w)), FALSE)

\* Action > Redo (line 177) and <Control-y> (line 196)
RedoMenu(w) == InputEvent(w, edit_redo(Widget(w)), FALSE)

RedoKey(w, twice) ==
  InputEvent(w, IF twice THEN edit_redo(edit_redo(Widget(w)))
                ELSE edit_redo(Widget(w)), FALSE)

\* ---------------------------------------------------------- document I/O
linesep == <<NL>>        \* os.linesep of the platform (POSIX)

\* f.write(content) in text mode, newline=None: "\n" is written as linesep
RECURSIVE WriteText(_)
WriteText(s) ==
  IF s = <<>> THEN <<>>
  ELSE (IF s[1] = NL THEN linesep ELSE <<s[1]>>) \o WriteText(SubSeq(s, 2, Len(s)))

\* f.read() in text mode, newline=None: "\r\n" and "\r" are read as "\n"
RECURSIVE ReadText(_)
ReadText(b) ==
  IF b = <<>> THEN <<>>
  ELSE IF b[1] = CR
       THEN <<NL>> \o ReadText(SubSeq(b, IF Len(b) > 1 /\ b[2] = NL THEN 3 ELSE 2, Len(b)))
       ELSE <<b[1]>> \o ReadText(SubSeq(b, 2, Len(b)))

\* how open(path, "w") followed by f.write(content) can end
WriteOutcomes == {"ok", "open_fails", "write_fails"}

\* Editor._do_new_file
do_new_file(w) ==
  LET ws == TextDeleteAll(Widget(w)) IN
  /\ Within(ws)
  /\ SetWidget(w, ws)
  /\ current_file' = [current_file EXCEPT ![w] = NewDocument]
  /\ changed' = [changed EXCEPT ![w] = FALSE]

\* Editor.new_file
new_file(w) ==
  /\ Usable(w)
  /\ IF current_file[w].modified
     THEN /\ unsaved_dialog' = w           \* show_unsaved_dialog
          /\ UNCHANGED docVars
     ELSE /\ do_new_file(w)
          /\ UNCHANGED unsaved_dialog
  /\ report' = NoReport
  /\ UNCHANGED <<winVars, fsVars, appVars>>

\* Editor.open_file; filename is what askopenfilename returned, readable
\* whether open() and f.read() succeed on an existing file
open_file(w, filename, readable) ==
  /\ Usable(w)
  /\ IF filename # Cancelled /\ files[filename].exists /\ readable
     THEN LET content == ReadText(files[filename].content)
              ws == TextInsert(TextDeleteAll(Widget(w)), 0, content)
          IN  /\ Within(ws)
              /\ SetWidget(w, ws)
              /\ current_file' = [current_file EXCEPT
                                    ![w] = [path |-> filename, modified |-> FALSE]]
              /\ changed' = [changed EXCEPT ![w] = FALSE]
              /\ report' = NoReport
     ELSE /\ UNCHANGED docVars
          \* cancelled, or messagebox.showerror("Open Error", ...)
          /\ report' = IF filename = Cancelled THEN NoReport ELSE "Open Error"
  /\ UNCHANGED <<winVars, fsVars, unsaved_dialog, appVars>>

\* a slip in the error handling: the document is taken as saved although
\* the write raised
WrittenAlways(io) == TRUE

\* the "try" block of lines 288-292 and 308-313 ran to its end: neither
\* open nor f.write raised
Written(io) == io = "ok"

\* lines 288-292 and 308-313: write the buffer of w to path
WriteBuffer(w, path, io) ==
  LET content == TextGetAll(Widget(w)) IN
  /\ files' = [files EXCEPT
                 ![path] = CASE io = "ok" -> [exists |-> TRUE, content |-> WriteText(content)]
                             [] io = "write_fails" -> [exists |-> TRUE, content |-> <<>>]
                             [] OTHER -> @]
  /\ saved_from' = [saved_from EXCEPT
                      ![path] = CASE io = "ok" -> [exists |-> TRUE, content |-> text[w]]
                                  [] io = "write_fails" -> NoFile
                                  [] OTHER -> @]
  /\ IF Written(io)
     THEN /\ current_file' = [current_file EXCEPT
                                ![w] = [path |-> path, modified |-> FALSE]]
          /\ changed' = [changed EXCEPT ![w] = FALSE]
          /\ report' = NoReport
     ELSE /\ UNCHANGED <<current_file, changed>>
          /\ report' = "Save Error"       \* messagebox.showerror

\* Editor.save_as_file; filename is what asksaveasfilename returned
save_as_file(w, filename, io) ==
  IF filename # Cancelled
  THEN WriteBuffer(w, filename, io)
  ELSE /\ UNCHANGED <<files, saved_from, current_file, changed>>
       /\ report' = NoReport

\* Editor.save_file
save_file(w, filename, io) ==
  IF current_file[w].path # None
  THEN WriteBuffer(w, current_file[w].path, io)
  ELSE save_as_file(w, filename, io)

\* File > Save
Save(w, filename, io) ==
  /\ Usable(w)
  /\ save_file(w, filename, io)
  /\ UNCHANGED <<winVars, text, undo, redo, found, unsaved_dialog, appVars>>

\* File > Save As
SaveAs(w, filename, io) ==
  /\ Usable(w)
  /\ save_as_file(w, filename, io)
  /\ UNCHANGED <<winVars, text, undo, redo, found, unsaved_dialog, appVars>>

\* ------------------------------------------------ unsaved-changes dialog
\* show_unsaved_dialog(on_discard): "def on_discard()" (line 344) rebinds
\* the name of the parameter (line 317), so in both button handlers
\* "on_discard" is the inner function, never the action that was passed in.
\* The inner function destroys the dialog and calls itself until Python
\* raises RecursionError, which the Tk callback wrapper reports and drops.
on_discard ==
  unsaved_dialog' = NoWindow

\* the "Don't Save" button of the dialog of window w
UnsavedDontSave(w) ==
  /\ unsaved_dialog = w
  /\ ~quit
  /\ on_discard
  /\ report' = NoReport
  /\ UNCHANGED <<winVars, docVars, fsVars, appVars>>

\* the "Save" button: on_save (lines 338-342)
UnsavedSave(w, filename, io) ==
  /\ unsaved_dialog = w
  /\ ~quit
  /\ save_file(w, filename, io)
  /\ on_discard
  /\ UNCHANGED <<winVars, text, undo, redo, found, appVars>>

\* ------------------------------------------------------------ Find dialog
\* Editor.open_find_dialog of window w: every call creates a dialog
open_find_dialog(w) ==
  /\ Usable(w)
  /\ find_dialogs[w] < MaxFindDialogs
  /\ find_dialogs' = [find_dialogs EXCEPT ![w] = @ + 1]
  /\ report' = NoReport
  /\ UNCHANGED <<winVars, docVars, fsVars, unsaved_dialog, themeVars, fontVars,
                 colours, fonts, crashed, find_pc, find_win, find_term, find_idx>>

\* the buttons of a Find dialog of window w can be used
FindDialogUsable(w) ==
  /\ find_dialogs[w] > 0
  /\ wstate[w] # "destroyed"
  /\ ~quit
  /\ ~crashed
  /\ unsaved_dialog = NoWindow
  /\ find_pc = "idle"

\* the "Close" button: find_dialog.destroy
CloseFind(w) ==
  /\ FindDialogUsable(w)
  /\ find_dialogs' = [find_dialogs EXCEPT ![w] = @ - 1]
  /\ report' = NoReport
  /\ UNCHANGED <<winVars, docVars, fsVars, unsaved_dialog, themeVars, fontVars,
                 colours, fonts, crashed, find_pc, find_win, find_term, find_idx>>

\* nocase=1: the case folding of the search
Lower(c) == IF c = "A" THEN "a" ELSE c

\* term occurs in t at offset i, ignoring case
MatchesAt(t, term, i) ==
  /\ i + Len(term) <= Len(t)
  /\ \A j \in 1..Len(term) : Lower(t[i + j]) = Lower(term[j])

NotFound == -1           \* text_area.search returned ""

\* a slip in the call: without stopindex the search wraps around to the
\* start of the buffer
search_wrapping(t, term, idx) ==
  LET hits == {i \in 0..Len(t) : MatchesAt(t, term, i)}
      ahead == {i \in hits : i >= idx}
  IN  IF hits = {} THEN NotFound
      ELSE IF ahead # {} THEN CHOOSE i \in ahead : \A j \in ahead : i <= j
      ELSE CHOOSE i \in hits : \A j \in hits : i <= j

\* text_area.search(term, idx, nocase=1, stopindex=tk.END) on the content t:
\* the first occurrence at or after idx; the search stops at the end and
\* does not wrap around
search(t, term, idx) ==
  LET hits == {i \in idx..Len(t) : MatchesAt(t, term, i)}
  IN  IF hits = {} THEN NotFound
      ELSE CHOOSE i \in hits : \A j \in hits : i <= j

\* a slip in the step of the loop: continuing one character after the
\* start of the match
LastIdxNextChar(idx, term) == idx + 1

\* lastidx = f"{idx}+{len(search_term)}c" (line 388)
LastIdx(idx, term) == idx + Len(term)

\* a slip in do_find: the old highlights are kept
tag_remove_skipped(tags) == tags

\* text_area.tag_remove("found", "1.0", tk.END) (line 377)
tag_remove(tags) == {}

\* do_find up to the loop: "Find All" or <Return> in a Find dialog of
\* window w whose entry holds term
do_find(w, term) ==
  /\ FindDialogUsable(w)
  /\ found' = [found EXCEPT ![w] = tag_remove(@)]
  /\ find_win' = w
  /\ find_term' = term                     \* search_entry.get()
  /\ IF term # <<>>
     THEN /\ find_pc' = "loop"
          /\ find_idx' = 0                  \* idx = "1.0"
     ELSE UNCHANGED <<find_pc, find_idx>>
  /\ report' = NoReport
  /\ UNCHANGED <<winVars, text, undo, redo, current_file, changed, fsVars,
                 unsaved_dialog, themeVars, fontVars, colours, fonts, crashed,
                 find_dialogs>>

\* one iteration of "while True" (lines 382-390); leaving the loop ends
\* the handler (tag_config, see and focus change no content)
find_iteration ==
  /\ find_pc = "loop"
  /\ LET idx == search(text[find_win], find_term, find_idx) IN
       IF idx = NotFound
       THEN /\ find_pc' = "idle"             \* break
            /\ UNCHANGED <<found, find_idx>>
       ELSE LET lastidx == LastIdx(idx, find_term) IN
            /\ found' = [found EXCEPT ![find_win] = @ \cup (idx..(lastidx - 1))]
            /\ find_idx' = lastidx
            /\ UNCHANGED find_pc
  /\ report' = NoReport
  /\ UNCHANGED <<winVars, text, undo, redo, current_file, changed, fsVars,
                 unsaved_dialog, themeVars, fontVars, colours, fonts, crashed,
                 find_dialogs, find_win, find_term>>

\* ----------------------------------------------------------- Theme dialog
\* save_settings(theme_name): the record json.dump writes
SettingsRecord(theme_name) ==
  [current_theme |-> theme_name, custom_theme |-> THEMES["Custom"],
   font_size |-> current_font_size]

\* a slip in save_settings: the font size is left out of the file
json_dump_without_font(settings) ==
  JObj([current_theme |-> JStr(settings.current_theme),
        custom_theme |-> JObj([k \in DOMAIN settings.custom_theme |->
                                 JStr(settings.custom_theme[k])])])

\* json.dump(settings, f) of the dictionary save_settings builds: what the
\* file holds afterwards
json_dump(settings) ==
  JObj([current_theme |-> JStr(settings.current_theme),
        custom_theme |-> JObj([k \in DOMAIN settings.custom_theme |->
                                 JStr(settings.custom_theme[k])]),
        font_size |-> JNum(settings.font_size)])

\* json.load(f): the Python value of a parseable document
RECURSIVE json_load(_)
json_load(doc) ==
  CASE doc.type = "string" -> doc.s
    [] doc.type = "number" -> doc.n
    [] doc.type = "object" -> [k \in DOMAIN doc.o |-> json_load(doc.o[k])]

\* save_settings(theme_name); ok is whether open(SETTINGS_FILE, 'w')
\* succeeds. Writing does not change who may read the file.
save_settings(theme_name, ok) ==
  IF ok
  THEN /\ settings_file' = [exists |-> TRUE,
                            readable |-> IF settings_file.exists
                                         THEN settings_file.readable ELSE TRUE,
                            data |-> json_dump(SettingsRecord(theme_name))]
       /\ saved_settings' = <<[current_theme |-> theme_name,
                               custom_theme |-> THEMES["Custom"],
                               font_size |-> current_font_size]>>
  ELSE UNCHANGED <<settings_file, saved_settings>>

\* a slip in load_settings: falling back to another theme
FallbackThemeDark == "Dark"

\* load_settings: return "Light" (lines 62-64) and the default of
\* settings.get("current_theme", "Light")
FallbackTheme == "Light"

\* what load_settings leaves when it changes no global
DefaultSettings ==
  [current_theme |-> FallbackTheme, custom_theme |-> DefaultThemes["Custom"],
   font_size |-> DefaultFontSize]

\* load_settings() on the file sf, run when the module is loaded: the value
\* it returns (current_theme) and the globals it leaves (THEMES["Custom"],
\* current_font_size). A missing file is not opened; a file that cannot be
\* opened or parsed, or whose document is not an object, raises inside
\* "try" before any global is assigned, and "except:" returns "Light".
load_settings(sf) ==
  IF sf.exists /\ sf.readable /\ sf.data.type = "object"
  THEN LET settings == json_load(sf.data) IN
       [current_theme |-> IF "current_theme" \in DOMAIN settings
                          THEN settings["current_theme"] ELSE FallbackTheme,
        custom_theme |-> IF "custom_theme" \in DOMAIN settings
                         THEN settings["custom_theme"] ELSE DefaultThemes["Custom"],
        font_size |-> IF "font_size" \in DOMAIN settings
                      THEN settings["font_size"] ELSE DefaultFontSize]
  ELSE DefaultSettings

\* starting the program: the module globals (lines 18-94, load_settings at
\* line 87), then main() with Editor(root, is_root=True). KeyError in
\* apply_theme (line 128) is caught nowhere and ends the process.
main ==
  /\ quit \/ crashed                       \* no process is running
  /\ LET L == load_settings(settings_file)
         themes == [DefaultThemes EXCEPT !["Custom"] = L.custom_theme]
     IN  /\ current_theme' = L.current_theme
         /\ THEMES' = themes
         /\ current_font_size' = L.font_size
         /\ colours' = [w \in Ids |->
                          IF w = root THEN configured(themes, Unconfigured, L.current_theme)
                          ELSE Unconfigured]
         /\ fonts' = [w \in Ids |-> IF w = root THEN L.font_size ELSE NoFont]
         /\ crashed' = lookup_raises(themes, L.current_theme)
  /\ loaded' = (saved_settings # <<>> /\ settings_file.readable)
  /\ all_editors' = <<root>>
  /\ wstate' = [w \in Ids |-> IF w = root THEN "shown" ELSE "none"]
  /\ parent' = [w \in Ids |-> NoWindow]
  /\ quit' = FALSE
  /\ text' = [w \in Ids |-> <<>>]
  /\ undo' = [w \in Ids |-> <<>>]
  /\ redo' = [w \in Ids |-> <<>>]
  /\ found' = [w \in Ids |-> {}]
  /\ current_file' = [w \in Ids |-> NewDocument]
  /\ changed' = [w \in Ids |-> FALSE]
  /\ unsaved_dialog' = NoWindow
  /\ theme_dialog_ref' = NoWindow
  /\ theme_dialogs' = [w \in Ids |-> 0]
  /\ theme_var' = "Light"
  /\ font_dialog_ref' = NoWindow
  /\ font_dialogs' = [w \in Ids |-> 0]
  /\ size_var' = DefaultFontSize
  /\ find_dialogs' = [w \in Ids |-> 0]
  /\ find_pc' = "idle"
  /\ find_win' = NoWindow
  /\ find_term' = <<>>
  /\ find_idx' = 0
  /\ report' = NoReport
  /\ UNCHANGED <<fsVars, settings_file, saved_settings>>

\* "if theme_dialog_ref and theme_dialog_ref.winfo_exists()" (line 492) and
\* the same test of font_dialog_ref (line 411)
winfo_exists_never(dialog_ref) == FALSE

winfo_exists(dialog_ref) == dialog_ref # NoWindow

\* tk.Toplevel(w) of a dialog (lines 415, 496) and its destroy()
Toplevel(dialogs, w) == [dialogs EXCEPT ![w] = @ + 1]

destroy(dialogs, w) == [dialogs EXCEPT ![w] = @ - 1]

\* Editor.open_theme_settings of window w: one dialog at a time
open_theme_settings(w) ==
  /\ Usable(w)
  /\ IF winfo_exists(theme_dialog_ref)
     THEN UNCHANGED <<theme_dialog_ref, theme_dialogs, theme_var>>   \* focus()
     ELSE /\ theme_dialogs' = Toplevel(theme_dialogs, w)
          /\ theme_dialog_ref' = w
          /\ theme_var' = current_theme
  /\ report' = NoReport
  /\ UNCHANGED <<winVars, docVars, fsVars, unsaved_dialog, current_theme, THEMES,
                 current_font_size, colours, settings_file, saved_settings, loaded,
                 fontVars, findVars, fonts, crashed>>

\* the dialog's buttons can be used
ThemeDialogUsable ==
  /\ theme_dialog_ref # NoWindow
  /\ ~quit
  /\ ~crashed
  /\ unsaved_dialog = NoWindow
  /\ find_pc = "idle"

\* the colour rows of the dialog, in the order they are built (lines
\* 552-557); "insertbackground" has none
PickOrder ==
  <<"bg", "fg", "selectbackground", "selectforeground", "status_bg", "status_fg">>

\* row i was built with its preview, which reads THEMES["Custom"][key]
\* (line 546): KeyError in a row leaves the dialog without the rows after
\* it and without its buttons
RowBuilt(i) == \A j \in 1..i : PickOrder[j] \in DOMAIN THEMES["Custom"]

ThemeDialogBuilt == RowBuilt(Len(PickOrder))

\* pick_color.pick of row i (lines 528-537); colour is color[1] of what
\* askcolor returned, Cancelled when the chooser was cancelled
pick(i, colour) ==
  /\ ThemeDialogUsable
  /\ RowBuilt(i)
  /\ IF colour # Cancelled
     THEN /\ THEMES' = [THEMES EXCEPT !["Custom"][PickOrder[i]] = colour]
          /\ theme_var' = "Custom"
     ELSE UNCHANGED <<THEMES, theme_var>>
  /\ report' = NoReport
  /\ UNCHANGED <<winVars, docVars, fsVars, unsaved_dialog, current_theme,
                 current_font_size, colours, theme_dialog_ref, theme_dialogs,
                 settings_file, saved_settings, loaded, fontVars, findVars, fonts,
                 crashed>>

\* a radio button of the Theme dialog (lines 514-518)
SelectTheme(name) ==
  /\ ThemeDialogUsable
  /\ theme_var' = name
  /\ report' = NoReport
  /\ UNCHANGED <<winVars, docVars, fsVars, unsaved_dialog, current_theme, THEMES,
                 current_font_size, colours, theme_dialog_ref, theme_dialogs,
                 settings_file, saved_settings, loaded, fontVars, findVars, fonts,
                 crashed>>

\* "for editor in all_editors: editor.apply_theme(name)" (lines 570-571):
\* configuring the widgets of a destroyed window raises TclError, which
\* ends the loop, so only the editors before the first destroyed one are
\* reached
Reached ==
  {all_editors[i] : i \in {j \in 1..Len(all_editors) :
                             \A k \in 1..j : wstate[all_editors[k]] # "destroyed"}}

BroadcastCompletes == \A i \in 1..Len(all_editors) : wstate[all_editors[i]] # "destroyed"

\* the same loop with a theme whose lookup fails: KeyError in the first
\* editor ends it
ThemeReached(theme_name) ==
  IF apply_theme_raises(theme_name)
  THEN {w \in Reached : Len(all_editors) > 0 /\ w = all_editors[1]}
  ELSE Reached

ThemeBroadcastCompletes(theme_name) ==
  BroadcastCompletes /\ (all_editors = <<>> \/ ~apply_theme_raises(theme_name))

\* open_theme_settings.apply_theme: the "Apply Theme" button
ApplyTheme(ok) ==
  /\ ThemeDialogUsable
  /\ ThemeDialogBuilt
  /\ current_theme' = theme_var
  /\ save_settings(theme_var, ok)
  /\ IF ok
     THEN /\ colours' = [x \in Ids |->
                           IF x \in ThemeReached(theme_var)
                           THEN apply_theme(colours[x], theme_var) ELSE colours[x]]
          /\ IF ThemeBroadcastCompletes(theme_var)
             THEN /\ theme_dialogs' = destroy(theme_dialogs, theme_dialog_ref)
                  /\ theme_dialog_ref' = NoWindow
             ELSE UNCHANGED <<theme_dialog_ref, theme_dialogs>>
     ELSE UNCHANGED <<colours, theme_dialog_ref, theme_dialogs>>
  /\ report' = NoReport
  /\ UNCHANGED <<winVars, docVars, fsVars, unsaved_dialog, THEMES, current_font_size,
                 theme_var, loaded, fontVars, findVars, fonts, crashed>>

\* open_theme_settings.save_custom_colors: the "Save Colors" button
SaveColors(ok) ==
  /\ ThemeDialogUsable
  /\ ThemeDialogBuilt
  /\ save_settings(current_theme, ok)
  /\ report' = IF ok THEN "Saved" ELSE NoReport      \* messagebox.showinfo
  /\ UNCHANGED <<winVars, docVars, fsVars, unsaved_dialog, current_theme, THEMES,
                 current_font_size, colours, theme_dialog_ref, theme_dialogs,
                 theme_var, loaded, fontVars, findVars, fonts, crashed>>

\* the "Cancel" button: theme_dialog.destroy, or closing the dialog window
CancelTheme ==
  /\ ThemeDialogUsable
  /\ theme_dialogs' = destroy(theme_dialogs, theme_dialog_ref)
  /\ theme_dialog_ref' = NoWindow
  /\ report' = NoReport
  /\ UNCHANGED <<winVars, docVars, fsVars, unsaved_dialog, current_theme, THEMES,
                 current_font_size, colours, theme_var, settings_file,
                 saved_settings, loaded, fontVars, findVars, fonts, crashed>>

\* ------------------------------------------------------ Font Size dialog
\* Editor.open_font_size_settings of window w: one dialog at a time
open_font_size_settings(w) ==
  /\ Usable(w)
  /\ IF winfo_exists(font_dialog_ref)
     THEN UNCHANGED <<font_dialog_ref, font_dialogs, size_var>>     \* focus()
     ELSE /\ font_dialogs' = Toplevel(font_dialogs, w)
          /\ font_dialog_ref' = w
          /\ size_var' = current_font_size
  /\ report' = NoReport
  /\ UNCHANGED <<winVars, docVars, fsVars, unsaved_dialog, themeVars, findVars,
                 colours, fonts, crashed>>

\* the dialog's slider and buttons can be used
FontDialogUsable ==
  /\ font_dialog_ref # NoWindow
  /\ ~quit
  /\ ~crashed
  /\ unsaved_dialog = NoWindow
  /\ find_pc = "idle"

\* the slider (tk.Scale from 8 to 32 on size_var)
SlideFont(size) ==
  /\ FontDialogUsable
  /\ size_var' = size
  /\ report' = NoReport
  /\ UNCHANGED <<winVars, docVars, fsVars, unsaved_dialog, themeVars, findVars,
                 colours, fonts, crashed, font_dialog_ref, font_dialogs>>

\* open_font_size_settings.apply_font_size: the "Apply" button. The loop
\* over all_editors ends at the first destroyed window, like the loop of
\* the Theme dialog.
ApplyFont(ok) ==
  /\ FontDialogUsable
  /\ current_font_size' = size_var
  /\ save_settings(current_theme, ok)
  /\ IF ok
     THEN /\ fonts' = [x \in Ids |-> IF x \in Reached THEN size_var ELSE fonts[x]]
          /\ IF BroadcastCompletes
             THEN /\ font_dialogs' = destroy(font_dialogs, font_dialog_ref)
                  /\ font_dialog_ref' = NoWindow
             ELSE UNCHANGED <<font_dialog_ref, font_dialogs>>
     ELSE UNCHANGED <<fonts, font_dialog_ref, font_dialogs>>
  /\ report' = NoReport
  /\ UNCHANGED <<winVars, docVars, fsVars, unsaved_dialog, current_theme, THEMES,
                 theme_dialog_ref, theme_dialogs, theme_var, loaded, size_var,
                 findVars, colours, crashed>>

\* the "Cancel" button: font_dialog.destroy, or closing the dialog window
CancelFont ==
  /\ FontDialogUsable
  /\ font_dialogs' = destroy(font_dialogs, font_dialog_ref)
  /\ font_dialog_ref' = NoWindow
  /\ report' = NoReport
  /\ UNCHANGED <<winVars, docVars, fsVars, unsaved_dialog, themeVars, findVars,
                 colours, fonts, crashed, size_var>>

\* --------------------------------------------------------- specifications
Positions(w) == 0..Len(text[w])
ClipTexts == {<<>>, <<"a">>, <<CR>>}    \* clipboard contents

Next ==
  \E w \in DocIds :
    \/ on_close(w)
    \/ \E c \in KeyChars, pos \in Positions(w) : KeyChar(w, c, pos)
    \/ \E pos \in 1..Len(text[w]) : KeyDelete(w, pos)
    \/ KeyOther(w)
    \/ \E clip \in ClipTexts, pos \in Positions(w) : Paste(w, clip, pos)
    \/ UndoMenu(w)
    \/ \E twice \in BOOLEAN : UndoKey(w, twice)
    \/ RedoMenu(w)
    \/ \E twice \in BOOLEAN : RedoKey(w, twice)
    \/ new_file(w)
    \/ \E f \in Paths \cup {Cancelled}, readable \in BOOLEAN : open_file(w, f, readable)
    \/ \E f \in Paths \cup {Cancelled}, io \in WriteOutcomes : Save(w, f, io)
    \/ \E f \in Paths \cup {Cancelled}, io \in WriteOutcomes : SaveAs(w, f, io)
    \/ \E f \in Paths \cup {Cancelled}, io \in WriteOutcomes : UnsavedSave(w, f, io)
    \/ UnsavedDontSave(w)

Spec == Init /\ [][Next]_vars

NextWin ==
  \/ \E w \in Ids : OpenNewWindow(w, Ids)
  \/ \E w \in Ids : on_close(w)
  \/ \E w \in Ids : open_theme_settings(w)
  \/ \E name \in ThemeNames : SelectTheme(name)
  \/ \E ok \in BOOLEAN : ApplyTheme(ok)
  \/ \E ok \in BOOLEAN : SaveColors(ok)
  \/ CancelTheme

\* SpecWin touches no file
InitWin == Init /\ files = [p \in Paths |-> NoFile]

SpecWin == InitWin /\ [][NextWin]_vars

\* the buffers and the queries of SpecFind
FindChars == {"a", "A", "b", NL}

RECURSIVE SeqsUpTo(_, _)
SeqsUpTo(S, n) ==
  IF n = 0 THEN {<<>>}
  ELSE LET shorter == SeqsUpTo(S, n - 1)
       IN  shorter \cup {Append(t, c) : t \in shorter, c \in S}

FindTexts == SeqsUpTo(FindChars, MaxFindLen)

\* what the one-line entry of a Find dialog can hold
FindTerms ==
  {<<>>, <<"a">>, <<"A">>, <<"b">>, <<"a", "a">>, <<"a", "b">>, <<"A", "b">>,
   <<"b", "a">>, <<"a", "b", "a">>}

\* SpecFind starts where the user pasted a text into the new document of
\* the root window
InitFind ==
  /\ \E t \in FindTexts : StartedWith(t)
  /\ files = [p \in Paths |-> NoFile]

NextFind ==
  \/ open_find_dialog(root)
  \/ CloseFind(root)
  \/ \E term \in FindTerms : do_find(root, term)
  \/ find_iteration

SpecFind == InitFind /\ [][NextFind]_vars

\* the handler runs on the one thread of the event loop, which executes
\* the next iteration of its loop before it takes another event
SpecFindFair == SpecFind /\ WF_vars(find_iteration)

\* the slider positions and the colour choices of SpecSet
FontSizes == {8, DefaultFontSize}
PickedRows == {1}
PickedColours == {Cancelled, "#ff0000"}

\* a settings file the program wrote earlier
WrittenFile ==
  json_dump([current_theme |-> "Dark", custom_theme |-> DefaultThemes["Custom"],
             font_size |-> 8])

\* what landtext_settings.json can hold when the program starts: nothing,
\* a file the program wrote, the same file made unreadable, a damaged
\* file, a document that is no object, and files edited by hand: one
\* without theme entries, two whose custom_theme names one colour only,
\* one naming a theme the program does not have
SettingsFiles ==
  {AbsentFile,
   [exists |-> TRUE, readable |-> TRUE, data |-> WrittenFile],
   [exists |-> TRUE, readable |-> FALSE, data |-> WrittenFile],
   [exists |-> TRUE, readable |-> TRUE, data |-> Unparseable],
   [exists |-> TRUE, readable |-> TRUE, data |-> JStr("Dark")],
   [exists |-> TRUE, readable |-> TRUE, data |-> JObj([font_size |-> JNum(8)])],
   [exists |-> TRUE, readable |-> TRUE,
    data |-> JObj([current_theme |-> JStr("Light"),
                   custom_theme |-> JObj([bg |-> JStr("#ff0000")])])],
   [exists |-> TRUE, readable |-> TRUE,
    data |-> JObj([current_theme |-> JStr("Custom"),
                   custom_theme |-> JObj([bg |-> JStr("#ff0000")])])],
   [exists |-> TRUE, readable |-> TRUE,
    data |-> JObj([current_theme |-> JStr("Solarized"), font_size |-> JNum(8)])]}

\* SpecSet starts before the program does and has the root window only
InitSet ==
  /\ all_editors = <<>>
  /\ wstate = [w \in Ids |-> "none"]
  /\ parent = [w \in Ids |-> NoWindow]
  /\ quit = TRUE
  /\ text = [w \in Ids |-> <<>>]
  /\ undo = [w \in Ids |-> <<>>]
  /\ redo = [w \in Ids |-> <<>>]
  /\ current_file = [w \in Ids |-> NewDocument]
  /\ files = [p \in Paths |-> NoFile]
  /\ unsaved_dialog = NoWindow
  /\ changed = [w \in Ids |-> FALSE]
  /\ saved_from = [p \in Paths |-> NoFile]
  /\ current_theme = FallbackTheme
  /\ THEMES = DefaultThemes
  /\ current_font_size = DefaultFontSize
  /\ colours = [w \in Ids |-> Unconfigured]
  /\ theme_dialog_ref = NoWindow
  /\ theme_dialogs = [w \in Ids |-> 0]
  /\ theme_var = "Light"
  /\ settings_file \in SettingsFiles
  /\ saved_settings = <<>>
  /\ loaded = FALSE
  /\ fonts = [w \in Ids |-> NoFont]
  /\ font_dialog_ref = NoWindow
  /\ font_dialogs = [w \in Ids |-> 0]
  /\ size_var = DefaultFontSize
  /\ found = [w \in Ids |-> {}]
  /\ find_dialogs = [w \in Ids |-> 0]
  /\ find_pc = "idle"
  /\ find_win = NoWindow
  /\ find_term = <<>>
  /\ find_idx = 0
  /\ report = NoReport
  /\ crashed = FALSE

NextSet ==
  \/ main
  \/ on_close(root)
  \/ open_theme_settings(root)
  \/ \E name \in ThemeNames : SelectTheme(name)
  \/ \E i \in PickedRows, colour \in PickedColours : pick(i, colour)
  \/ \E ok \in BOOLEAN : ApplyTheme(ok)
  \/ \E ok \in BOOLEAN : SaveColors(ok)
  \/ CancelTheme
  \/ open_font_size_settings(root)
  \/ \E size \in FontSizes : SlideFont(size)
  \/ \E ok \in BOOLEAN : ApplyFont(ok)
  \/ CancelFont

SpecSet == InitSet /\ [][NextSet]_vars

\* SpecLook: two windows, the Theme dialog and the Font Size dialog, from
\* the start without a settings file; the settings file can be written
LookIds == {root, 2}

NextLook ==
  \/ \E w \in LookIds : OpenNewWindow(w, LookIds)
  \/ \E w \in LookIds : on_close(w)
  \/ \E w \in LookIds : open_theme_settings(w)
  \/ \E name \in ThemeNames : SelectTheme(name)
  \/ \E i \in PickedRows, colour \in PickedColours : pick(i, colour)
  \/ ApplyTheme(TRUE)
  \/ CancelTheme
  \/ \E w \in LookIds : open_font_size_settings(w)
  \/ \E size \in FontSizes : SlideFont(size)
  \/ ApplyFont(TRUE)
  \/ CancelFont

SpecLook == InitWin /\ [][NextLook]_vars

\* SpecTwo: the root window and a second window, each with its document,
\* typing at the end of the buffer, the file handlers with reads and writes
\* that succeed, and Find
TwoIds == {root, 2}
TwoTerms == {<<"a">>}

\* a handler of window w
WindowAction(w) ==
  \/ KeyChar(w, "a", Len(text[w]))
  \/ new_file(w)
  \/ \E f \in Paths \cup {Cancelled} : open_file(w, f, TRUE)
  \/ \E f \in Paths \cup {Cancelled} : Save(w, f, "ok")
  \/ \E f \in Paths \cup {Cancelled} : SaveAs(w, f, "ok")
  \/ \E f \in Paths \cup {Cancelled} : UnsavedSave(w, f, "ok")
  \/ UnsavedDontSave(w)
  \/ open_find_dialog(w)
  \/ \E term \in TwoTerms : do_find(w, term)
  \/ find_win = w /\ find_iteration

NextTwo ==
  \/ OpenNewWindow(root, TwoIds)
  \/ \E w \in TwoIds : WindowAction(w)

\* every file of SpecTwo was written by one of the windows
SpecTwo == InitWin /\ [][NextTwo]_vars

\* ------------------------------------------------------------ properties
Live(w) == InRegistry(w) /\ wstate[w] = "shown"

\* a successful Open of window w: the chosen file was read into the buffer
OpenStep(w) == \E f \in Paths : files[f].exists /\ open_file(w, f, TRUE)

\* C1: in every window the modified flag is true iff a content-changing
\* event occurred since the window's last successful New, Open, Save or
\* Save As.
DirtyIffChanged ==
  \A w \in DocIds : wstate[w] # "none" => (current_file[w].modified <=> changed[w])

\* C2: a Dirty window leaves the registry (teardown) only in a step that
\* answers the window's open unsaved-changes dialog; without the dialog
\* only a Clean window is torn down.
CloseDirtyConfirmsFirst ==
  [][\A w \in DocIds :
       (InRegistry(w) /\ current_file[w].modified /\ ~InRegistry(w)')
          => (unsaved_dialog = w /\ unsaved_dialog' = NoWindow)]_vars

\* C3: Open replaces the buffer of a Dirty window only as the answer to
\* that window's open unsaved-changes dialog.
OpenDirtyConfirmsFirst ==
  [][\A w \in DocIds :
       (current_file[w].modified /\ OpenStep(w)) => unsaved_dialog = w]_vars

\* C4: answering "Don't Save" to the dialog that New raised on a Dirty
\* window carries out New: afterwards the buffer is empty and the document
\* identity is (path = None, modified = false).
DontSaveCarriesOutNew ==
  [][\A w \in DocIds :
       UnsavedDontSave(w) => (text'[w] = <<>> /\ current_file'[w] = NewDocument)]_vars

\* C5: answering "Save" performs save() and then carries out the requested
\* New, whether the save succeeded or failed: afterwards the buffer is
\* empty and the document identity is (path = None, modified = false).
SaveThenCarriesOutNew ==
  [][\A w \in DocIds :
       (\E f \in Paths \cup {Cancelled}, io \in WriteOutcomes : UnsavedSave(w, f, io))
          => (text'[w] = <<>> /\ current_file'[w] = NewDocument)]_vars

\* C6: opening a path that holds a saved buffer C yields buffer content
\* exactly C.
SaveOpenRoundTrip ==
  [][\A w \in DocIds : \A f \in Paths :
       (files[f].exists /\ saved_from[f].exists /\ open_file(w, f, TRUE))
          => text'[w] = saved_from[f].content]_vars

\* C7: when Apply Theme has saved the settings, every window of the
\* registry that is on screen displays the colours of the applied theme,
\* and a window constructed later displays the colours of the current
\* theme.
ThemeBroadcastReachesAll ==
  [][/\ ApplyTheme(TRUE)
          => \A w \in Ids : Live(w) => colours'[w] = [k \in ThemeKeys |-> THEMES'[theme_var][k]]
     /\ \A w \in Ids : OpenNewWindow(w, Ids)
          => \A n \in Ids : (wstate[n] = "none" /\ wstate'[n] = "shown")
                => colours'[n] = [k \in ThemeKeys |-> THEMES[current_theme][k]]]_vars

\* C8: the root was told to quit exactly when the registry is empty: never
\* while an editor is registered, always once none is.
QuitExactlyWhenRegistryEmpty == quit <=> (all_editors = <<>>)

\* the root and another window were closed, in some order, and the close
\* that emptied the registry told the root to quit
QuitAfterSeveralCloses ==
  /\ quit
  /\ wstate[root] = "withdrawn"
  /\ \E w \in Ids : wstate[w] = "destroyed"

\* C9: the registry holds exactly the live editor windows: every entry is
\* a window on screen and every editor window on screen is an entry.
RegistryIsLive == \A w \in Ids : InRegistry(w) <=> wstate[w] = "shown"

\* C10: while the registry is non-empty the root is not destroyed: it is on
\* screen while registered and hidden once it was closed.
RootOnlyHidden ==
  all_editors # <<>> => wstate[root] = (IF InRegistry(root) THEN "shown" ELSE "withdrawn")

\* the root was closed while siblings were registered, and a sibling was
\* closed after or before it with the registry still non-empty
RootHiddenAmongSiblings ==
  /\ wstate[root] = "withdrawn"
  /\ \E w \in Ids : Live(w)
  /\ \E w \in Ids : wstate[w] = "destroyed" /\ ~InRegistry(w)

\* the offsets a query q highlights in the content t: the spans of the
\* occurrences of q, taken from the start of t, that begin inside no
\* earlier taken span
GreedyStarts(t, q) ==
  CHOOSE S \in SUBSET (0..Len(t)) :
    \A i \in 0..Len(t) :
      i \in S <=> (MatchesAt(t, q, i) /\ \A h \in S : ~(h < i /\ i < h + Len(q)))

GreedySpans(t, q) == UNION {i..(i + Len(q) - 1) : i \in GreedyStarts(t, q)}

\* C11: when Find All returns for a non-empty query, the highlighted
\* characters are exactly those of the greedy non-overlapping
\* case-insensitive occurrences of the query, scanning from the start.
FindHighlightsGreedySpans ==
  [][(find_pc = "loop" /\ find_pc' = "idle")
        => found'[find_win] = GreedySpans(text[find_win], find_term)]_vars

\* "ab" was searched in "abab" and both occurrences are highlighted
FoundBothOccurrences ==
  /\ find_pc = "idle"
  /\ find_term = <<"a", "b">>
  /\ text[root] = <<"a", "b", "a", "b">>
  /\ found[root] = {0, 1, 2, 3}

\* C12: Find All with an empty query removes every highlight of the
\* window and adds none, without entering the search loop.
EmptyQueryClearsHighlights ==
  [][\A w \in Ids : do_find(w, <<>>) => (found'[w] = {} /\ find_pc' = "idle")]_vars

\* an empty query was the last one searched in a non-empty buffer
EmptyQuerySearched ==
  /\ find_win = root
  /\ find_term = <<>>
  /\ find_pc = "idle"
  /\ text[root] # <<>>
  /\ found[root] = {}

\* the settings in memory: the active theme, the Custom colours, the font
\* size
Settings ==
  [current_theme |-> current_theme, custom_theme |-> THEMES["Custom"],
   font_size |-> current_font_size]

\* C13: starting the program on a readable file that save_settings wrote
\* from one of the three theme names, a complete Custom table and a font
\* size yields that theme name, that font size and that Custom table.
SettingsRoundTrip ==
  [][(/\ main
      /\ saved_settings # <<>>
      /\ settings_file.readable
      /\ saved_settings[1].current_theme \in ThemeNames
      /\ ThemeKeys \subseteq DOMAIN saved_settings[1].custom_theme)
        => /\ current_theme' = saved_settings[1].current_theme
           /\ current_font_size' = saved_settings[1].font_size
           /\ THEMES'["Custom"] = saved_settings[1].custom_theme]_vars

\* the program was started on a file it had written with the Dark theme,
\* a picked background and font size 8, and runs with these settings
LoadedWhatWasSaved ==
  /\ loaded
  /\ wstate[root] = "shown"
  /\ theme_dialog_ref = NoWindow
  /\ font_dialog_ref = NoWindow
  /\ saved_settings =
       <<[current_theme |-> "Dark",
          custom_theme |-> [DefaultThemes["Custom"] EXCEPT !["bg"] = "#ff0000"],
          font_size |-> 8]>>
  /\ Settings = saved_settings[1]

\* C14: in every state each of Light, Dark and Custom resolves to a record
\* holding every colour that applying a theme reads.
ThemesComplete ==
  \A name \in ThemeNames :
    name \in DOMAIN THEMES /\ ThemeKeys \subseteq DOMAIN THEMES[name]

\* C15: in every state the active theme name is Light, Dark or Custom.
ActiveThemeKnown == current_theme \in ThemeNames

\* the file load_settings cannot use: absent, unreadable or not parseable
Unloadable(sf) == ~sf.exists \/ ~sf.readable \/ sf.data = Unparseable

\* C16: starting the program on an absent, unreadable or unparseable
\* settings file raises nothing and leaves the defaults: theme Light, font
\* size 12, the Custom colours at their built-in values.
LoadFailureYieldsDefaults ==
  [][(main /\ Unloadable(settings_file))
        => /\ ~crashed'
           /\ current_theme' = "Light"
           /\ current_font_size' = 12
           /\ THEMES'["Custom"] = LightTheme]_vars

\* the program runs with the defaults on a damaged settings file
DefaultsOnDamagedFile ==
  /\ settings_file.exists /\ settings_file.readable
  /\ settings_file.data = Unparseable
  /\ wstate[root] = "shown"
  /\ ~quit /\ ~crashed
  /\ Settings = [current_theme |-> "Light", custom_theme |-> LightTheme,
                  font_size |-> 12]

\* C17: while the program runs, the settings in memory change only in an
\* Apply step of the Theme or the Font Size dialog, and after the step the
\* settings file holds the changed settings.
SettingsChangeOnlyOnApply ==
  [][(~quit /\ ~crashed /\ Settings' # Settings)
        => /\ \E ok \in BOOLEAN : ApplyTheme(ok) \/ ApplyFont(ok)
           /\ load_settings(settings_file') = Settings']_vars

\* C19: whenever no handler runs, all windows of the registry that are on
\* screen display the same colours and the same font size.
WindowsLookAlike ==
  (find_pc = "idle" /\ ~crashed)
    => \A v, w \in Ids :
         (Live(v) /\ Live(w)) => (colours[v] = colours[w] /\ fonts[v] = fonts[w])

\* the document of window w as the user sees it: buffer, path, modified
Document(w) == <<text[w], current_file[w]>>

\* Open of window w on a chosen file that is missing or cannot be read
FailedOpen(w) ==
  \E f \in Paths, readable \in BOOLEAN :
    (~readable \/ ~files[f].exists) /\ open_file(w, f, readable)

\* Save, Save As or the Save button of the unsaved-changes dialog of
\* window w with a write that raises
FailedWrite(w) ==
  \E f \in Paths \cup {Cancelled}, io \in WriteOutcomes \ {"ok"} :
    \/ (current_file[w].path # None \/ f # Cancelled) /\ Save(w, f, io)
    \/ f # Cancelled /\ SaveAs(w, f, io)
    \/ (current_file[w].path # None \/ f # Cancelled) /\ UnsavedSave(w, f, io)

\* Open, Save As, or Save of an unnamed document, with the chooser cancelled
CancelledChooser(w) ==
  \E readable \in BOOLEAN, io \in WriteOutcomes :
    \/ open_file(w, Cancelled, readable)
    \/ SaveAs(w, Cancelled, io)
    \/ current_file[w].path = None /\ Save(w, Cancelled, io)

\* C18: a failed read in Open and a failed write in Save or Save As show
\* an error and leave buffer, path and modified flag of the window as they
\* were; a cancelled file chooser leaves them as they were and shows
\* nothing.
FailureLeavesDocument ==
  [][\A w \in DocIds :
       /\ FailedOpen(w) => (report' = "Open Error" /\ Document(w)' = Document(w))
       /\ FailedWrite(w) => (report' = "Save Error" /\ Document(w)' = Document(w))
       /\ CancelledChooser(w) => (report' = NoReport /\ Document(w)' = Document(w))]_vars

\* Save As of a modified unnamed document failed while writing: the error
\* was shown and the document is still unnamed and modified
SaveErrorKeepsDocument ==
  /\ report = "Save Error"
  /\ text[root] = <<"a">>
  /\ current_file[root] = [path |-> None, modified |-> TRUE]
  /\ \E f \in Paths : files[f] = [exists |-> TRUE, content |-> <<>>]

\* C20: a handler of one window (typing, New, Open, Save, Save As, the
\* unsaved-changes dialog, Find) leaves buffer, path and modified flag of
\* every other window as they were.
HandlersKeepOtherDocuments ==
  [][\A v, w \in TwoIds :
       (v # w /\ WindowAction(v)) => Document(w)' = Document(w)]_vars

\* both windows are open with different documents: the root holds the
\* saved file, the second window a longer text that was searched and is
\* not saved
TwoDifferentDocuments ==
  /\ wstate[2] = "shown"
  /\ Document(root) = << <<"a">>, [path |-> "p.txt", modified |-> FALSE] >>
  /\ Document(2) = << <<"a", "a">>, [path |-> None, modified |-> TRUE] >>
  /\ found[2] = {0, 1}

\* C22: every iteration of the loop of do_find either finds no match and
\* leaves the loop or moves the scan position strictly forward, and the
\* loop, once entered, is left.
FindLoopTerminates ==
  /\ [][find_iteration => (find_pc' = "idle" \/ find_idx' > find_idx)]_vars
  /\ (find_pc = "loop" ~> find_pc = "idle")

\* inside the loop, after a match that ended exactly at the end of the
\* buffer: the scan position is the end of the content
ScanReachedBufferEnd ==
  /\ find_pc = "loop"
  /\ find_idx > 0
  /\ find_idx = Len(text[find_win])


\* the dialogs of one kind that exist, over all windows
RECURSIVE DialogCount(_, _)
DialogCount(dialogs, S) ==
  IF S = {} THEN 0
  ELSE LET x == CHOOSE y \in S : TRUE IN dialogs[x] + DialogCount(dialogs, S \ {x})

ThemeDialogs == DialogCount(theme_dialogs, Ids)

FontDialogs == DialogCount(font_dialogs, Ids)

\* a step of the menu entries "Theme" or "Font Size" of some window
RequestsThemeDialog == \E w \in Ids : open_theme_settings(w)

RequestsFontDialog == \E w \in Ids : open_font_size_settings(w)

\* C21: at most one Theme dialog and at most one Font Size dialog exist at
\* any time over all windows; a request from any window while one of the
\* kind exists leaves the existing dialogs as they are, and a request while
\* none exists (never opened, applied, cancelled, or destroyed with its
\* window) creates exactly one, owned by the requesting window.
DialogsAreSingletons ==
  /\ [](ThemeDialogs <= 1 /\ FontDialogs <= 1)
  /\ [][RequestsThemeDialog =>
          IF ThemeDialogs = 1
          THEN theme_dialogs' = theme_dialogs /\ theme_dialog_ref' = theme_dialog_ref
          ELSE ThemeDialogs' = 1 /\ theme_dialogs'[theme_dialog_ref'] = 1]_vars
  /\ [][RequestsFontDialog =>
          IF FontDialogs = 1
          THEN font_dialogs' = font_dialogs /\ font_dialog_ref' = font_dialog_ref
          ELSE FontDialogs' = 1 /\ font_dialogs'[font_dialog_ref'] = 1]_vars

\* both dialogs exist, owned by different windows, and both windows can
\* request them again
BothDialogsOpen ==
  /\ theme_dialogs[2] = 1
  /\ font_dialogs[root] = 1
  /\ Usable(root)
  /\ Usable(2)

====
